---- MODULE Spec2Model ----
(***************************************************************************)
(* Model of godot-core/src/obj/as_object_arg.rs: the AsObjectArg trait,    *)
(* its four implementations, the NullArg marker and the non-owning         *)
(* ObjectArg<T> view with its GodotFfi / ToGodot / FromGodot / GodotType / *)
(* GodotFfiVariant / GodotNullableFfi implementations.                     *)
(*                                                                         *)
(* The engine heap and the RawGd handles (is_null, obj_sys, check_rtti,    *)
(* creation, referencing, dropping and freeing of objects) live outside    *)
(* this file; they are modelled from the specification's description of    *)
(* the handle capability interface.  The model follows one heap address,   *)
(* which successive objects reuse, and the one handle variable the caller  *)
(* holds to it; further handles to the object show only in its refcount.   *)
(***************************************************************************)
EXTENDS Integers, FiniteSets, Sequences, TLC

(* ------------------------------ bounds --------------------------------- *)

\* Number of ObjectArg values that can exist at the same time.
MaxViews == 2

\* Largest reference count of an object.
MaxRefcount == 2

(* ----------------------------- constants ------------------------------- *)

\* ptr::null_mut()
NullPtr == 0

\* The heap address the model follows.
Addrs == {1}

\* Engine classes used to instantiate T, U and Derived.
Classes == {"Node", "Node2D", "RefCounted"}

\* U: Inherits<T> -- U is T or a (transitive) subclass of T.
Inherits(U, T) ==
    \/ U = T
    \/ U = "Node2D" /\ T = "Node"

\* Reference-counted classes; the others are manually managed.
IsRefCounted(cls) == Inherits(cls, "RefCounted")

\* The two mutually exclusive build configurations of as_arg_ptr.
ApiLevels == {"before_4_1", "since_4_1"}

VARIABLES
    api,        \* the build-time API level (cfg before_api / since_api)
    objects,    \* heap: address -> [alive, class, refcount]
    gd,         \* the caller's handle: RawGd [ptr, declared]
    views,      \* the existing views: a sequence of ObjectArg [T, object_ptr]
    last        \* the last call of this layer: name, outcome, return value

vars == <<api, objects, gd, views, last>>

(* ------------------------------- values -------------------------------- *)

NoClass == "-"
DeadObject == [alive |-> FALSE, class |-> NoClass, refcount |-> 0]
NoView == [T |-> NoClass, object_ptr |-> NullPtr]

\* RawGd<Derived>: the object's address and the statically declared class.
RawGd(p, declared) == [ptr |-> p, declared |-> declared]

\* A handle variable that holds nothing.
NoHandle == RawGd(NullPtr, NoClass)

\* struct ObjectArg<T> { object_ptr, _marker: PhantomData<*mut T> }
ObjectArg(T, p) == [T |-> T, object_ptr |-> p]

\* A GDExtension type pointer: an object address, or the address of the
\* object_ptr field of the view held in slot `at`.
ObjectSpace == "object"
FieldSpace == "field"
TypePtr(space, at) == [space |-> space, at |-> at]
NoPtr == TypePtr("-", 0)

\* object_ptr.cast()
cast(p) == TypePtr(ObjectSpace, p)

\* ptr::addr_of!(self.object_ptr) for the view in slot v
addr_of(v) == TypePtr(FieldSpace, v)

\* Reading one pointer-sized word through a type pointer that addresses a
\* view's object_ptr field.
Deref(p) == cast(views[p.at].object_ptr)

(* --------------------- handle capability interface --------------------- *)

\* RawGd::is_null
raw_is_null(obj) == obj.ptr = NullPtr

\* RawGd::obj_sys
obj_sys(obj) == obj.ptr

\* RawGd::check_rtti: the object behind the handle is alive and its dynamic
\* class is the handle's class or a subclass of it.
check_rtti(obj) ==
    /\ obj.ptr \in Addrs
    /\ objects[obj.ptr].alive
    /\ Inherits(objects[obj.ptr].class, obj.declared)

(* ------------------------------ outcomes ------------------------------- *)

Ok(view, checked) == [outcome |-> "ok", view |-> view, checked |-> checked]
Fatal(checked) == [outcome |-> "panic", view |-> NoView, checked |-> checked]

(* --------------------------- ObjectArg<T> ------------------------------ *)

\* from_raw_gd without the runtime check.
from_raw_gd_unchecked(obj, T) == Ok(ObjectArg(T, obj_sys(obj)), FALSE)

\* from_raw_gd running the runtime check on null handles too.
from_raw_gd_checking_null(obj, T) ==
    IF ~check_rtti(obj)
    THEN Fatal(TRUE)
    ELSE Ok(ObjectArg(T, obj_sys(obj)), TRUE)

\* from_raw_gd storing a null pointer instead of the handle's.
from_raw_gd_dropping_pointer(obj, T) ==
    IF ~raw_is_null(obj) /\ ~check_rtti(obj)
    THEN Fatal(TRUE)
    ELSE Ok(ObjectArg(T, NullPtr), ~raw_is_null(obj))

\* ObjectArg::from_raw_gd
from_raw_gd(obj, T) ==
    IF ~raw_is_null(obj) /\ ~check_rtti(obj)
    THEN Fatal(TRUE)
    ELSE Ok(ObjectArg(T, obj_sys(obj)), ~raw_is_null(obj))

\* null() built from a dangling, non-null pointer.
null_dangling(T) == [T |-> T, object_ptr |-> 1]

\* ObjectArg::null
null(T) == ObjectArg(T, NullPtr)

\* ObjectArg::is_null
is_null(view) == view.object_ptr = NullPtr

\* clone that does not copy the pointer.
clone_without_pointer(view) == [T |-> view.T, object_ptr |-> NullPtr]

\* impl Clone for ObjectArg<T>
clone(view) == ObjectArg(view.T, view.object_ptr)

(* --------------------------- AsObjectArg<T> ---------------------------- *)

\* Option<U>: None is the empty sequence, Some(x) the one-element sequence.
None == <<>>
Some(x) == <<x>>

\* impl AsObjectArg<T> for &Gd<U>
as_object_arg_ref(self, T) == from_raw_gd(self, T)

\* impl AsObjectArg<T> for Gd<U>
as_object_arg_gd(self, T) == as_object_arg_ref(self, T)

\* The Option implementation mapping Some to null as well.
as_object_arg_option_always_null(opt, T) == Ok([T |-> T, object_ptr |-> NullPtr], FALSE)

\* impl AsObjectArg<T> for Option<U>
as_object_arg_option(opt, T) ==
    IF opt = None THEN Ok(null(T), FALSE) ELSE as_object_arg_gd(opt[1], T)

\* impl AsObjectArg<T> for NullArg
as_object_arg_null_arg(T) == Ok(null(T), FALSE)

(* ------------------------ GodotFfi for ObjectArg ----------------------- *)

\* unreachable!("ObjectArg should only be passed *to* Godot, not *from*.")
unreachable == Fatal(FALSE)

\* GodotFfi::new_from_sys
new_from_sys == unreachable

\* GodotFfi::new_with_uninit
new_with_uninit == unreachable

\* GodotFfi::new_with_init
new_with_init == unreachable

\* GodotFfi::sys
sys(view) == cast(view.object_ptr)

\* GodotFfi::sys_mut
sys_mut(view) == cast(view.object_ptr)

\* as_arg_ptr returning the raw object pointer under every API level.
as_arg_ptr_direct(v) == cast(views[v].object_ptr)

\* GodotFfi::as_arg_ptr, for the view held in slot v
as_arg_ptr(v) ==
    IF api = "before_4_1" THEN sys(views[v]) ELSE addr_of(v)

\* GodotFfi::from_arg_ptr
from_arg_ptr == unreachable

\* GodotFfi::move_return_ptr
move_return_ptr(view) == unreachable

(* ------------- ToGodot / FromGodot / GodotType / variants -------------- *)

\* ToGodot::to_godot
to_godot(view) == clone(view)

\* ToGodot::into_godot
into_godot(view) == view

\* FromGodot::try_from_godot
try_from_godot(via) == unreachable

\* GodotType::to_ffi
to_ffi(view) == clone(view)

\* GodotType::into_ffi
into_ffi(view) == view

\* GodotType::try_from_ffi
try_from_ffi(ffi) == Ok(ffi, FALSE)

\* GodotFfiVariant::ffi_to_variant
ffi_to_variant(view) == unreachable

\* GodotFfiVariant::ffi_from_variant
ffi_from_variant == unreachable

\* GodotNullableFfi::flatten_option
flatten_option(opt, T) == IF opt = None THEN null(T) ELSE opt[1]

\* GodotNullableFfi::is_null
nullable_is_null(view) == is_null(view)

(* ------------------------------- state --------------------------------- *)

\* A call's record: its name, whether it returned or panicked, and the
\* view, pointer or boolean it returned.
Call(op, outcome, view, ptr, flag, checked) ==
    [op |-> op, outcome |-> outcome, view |-> view, ptr |-> ptr,
     flag |-> flag, checked |-> checked]

\* A call that produced (or failed to produce) an ObjectArg.
ViewCall(op, res) == Call(op, res.outcome, res.view, NoPtr, FALSE, res.checked)

\* No call of this layer is the last step: the handle layer acted, or a
\* view went out of scope.
NoCall == Call("-", "ok", NoView, NoPtr, FALSE, FALSE)

\* The slots that hold a view.
ViewIds == DOMAIN views

HasFreeSlot == Len(views) < MaxViews

\* The slot a newly returned view is held in.
FreeSlot == Len(views) + 1

\* The views without the one in slot v.
Without(v) == SubSeq(views, 1, v - 1) \o SubSeq(views, v + 1, Len(views))

\* The caller keeps a returned view in a fresh slot; a panic returns nothing.
Returned(res) ==
    IF res.outcome = "ok" THEN Append(views, res.view) ELSE views

\* A value passed by value (self, via, ffi) leaves its slot; what the call
\* returns, if anything, takes its place.
Moved(v, res) ==
    IF res.outcome = "ok" THEN [views EXCEPT ![v] = res.view] ELSE Without(v)

\* Gd<U> never holds a null pointer; RawGd<U> may.
IsGd == ~raw_is_null(gd)

\* The RawGd values a caller can pass: the one inside the Gd it holds, or
\* RawGd::<Derived>::null() for any class.
RawGds ==
    (IF IsGd THEN {gd} ELSE {}) \cup {RawGd(NullPtr, d) : d \in Classes}

\* The optional handles a caller can pass: None, or Some of the Gd it holds.
OptionalGds == {None} \cup (IF IsGd THEN {Some(gd)} ELSE {})

\* Nothing exists yet: no object, no handle, no view.
Fresh ==
    /\ objects = [a \in Addrs |-> DeadObject]
    /\ gd = NoHandle
    /\ views = <<>>
    /\ last = NoCall

\* The build for the current API level (since_api = "4.1").
Init == api = "since_4_1" /\ Fresh

\* Either build: the API level is chosen when the crate is compiled.
InitAnyApi == api \in ApiLevels /\ Fresh

(* --------------------------- handle layer ------------------------------ *)

LiveObject(cls) ==
    [alive |-> TRUE, class |-> cls,
     refcount |-> IF IsRefCounted(cls) THEN 1 ELSE 0]

\* The caller constructs an object of class cls at a free address and holds
\* it in a handle declared with class `declared`.
NewObject(a, cls, declared) ==
    /\ raw_is_null(gd)
    /\ ~objects[a].alive
    /\ Inherits(cls, declared)
    /\ objects' = [objects EXCEPT ![a] = LiveObject(cls)]
    /\ gd' = RawGd(a, declared)
    /\ last' = NoCall
    /\ UNCHANGED <<api, views>>

\* The engine constructs an object the caller holds no handle to; it keeps
\* the one reference of a reference-counted object.
EngineNew(a, cls) ==
    /\ ~objects[a].alive
    /\ objects' = [objects EXCEPT ![a] = LiveObject(cls)]
    /\ last' = NoCall
    /\ UNCHANGED <<api, gd, views>>

\* The references the caller's handle holds on the object at address a.
Held(a) == IF gd.ptr = a /\ check_rtti(gd) THEN 1 ELSE 0

\* Gd::clone handed elsewhere, or the engine storing the object: one more
\* reference to a reference-counted object.
Reference(a) ==
    /\ objects[a].alive /\ IsRefCounted(objects[a].class)
    /\ objects[a].refcount < MaxRefcount
    /\ objects' = [objects EXCEPT ![a].refcount = @ + 1]
    /\ last' = NoCall
    /\ UNCHANGED <<api, gd, views>>

\* The object at address a loses one reference; the last one destroys it.
Released(a) ==
    IF objects[a].refcount = 1
    THEN [objects EXCEPT ![a] = DeadObject]
    ELSE [objects EXCEPT ![a].refcount = @ - 1]

\* A reference not held by the caller's handle is given up.
Unreference(a) ==
    /\ objects[a].alive /\ IsRefCounted(objects[a].class)
    /\ objects[a].refcount > Held(a)
    /\ objects' = Released(a)
    /\ last' = NoCall
    /\ UNCHANGED <<api, gd, views>>

\* Drop of the caller's handle.
DropHandle ==
    /\ IsGd
    /\ objects' = IF Held(gd.ptr) = 1 /\ IsRefCounted(objects[gd.ptr].class)
                  THEN Released(gd.ptr) ELSE objects
    /\ gd' = NoHandle
    /\ last' = NoCall
    /\ UNCHANGED <<api, views>>

\* Gd::free: the caller destroys a manually managed object through its
\* handle, which is consumed.
FreeObject ==
    /\ IsGd /\ check_rtti(gd)
    /\ ~IsRefCounted(objects[gd.ptr].class)
    /\ objects' = [objects EXCEPT ![gd.ptr] = DeadObject]
    /\ gd' = NoHandle
    /\ last' = NoCall
    /\ UNCHANGED <<api, views>>

\* The engine, or another handle, destroys a manually managed object; the
\* caller's handle keeps its address.
EngineFree(a) ==
    /\ objects[a].alive /\ ~IsRefCounted(objects[a].class)
    /\ objects' = [objects EXCEPT ![a] = DeadObject]
    /\ last' = NoCall
    /\ UNCHANGED <<api, gd, views>>

(* ------------------------- conversions to a view ----------------------- *)

\* ObjectArg::<T>::from_raw_gd(&obj)
FromRawGd(obj, T) ==
    /\ Inherits(obj.declared, T)
    /\ HasFreeSlot
    /\ views' = Returned(from_raw_gd(obj, T))
    /\ last' = ViewCall("from_raw_gd", from_raw_gd(obj, T))
    /\ UNCHANGED <<api, objects, gd>>

\* <Gd<U> as AsObjectArg<T>>::as_object_arg(&gd)
GdAsObjectArg(T) ==
    /\ IsGd
    /\ Inherits(gd.declared, T)
    /\ HasFreeSlot
    /\ views' = Returned(as_object_arg_gd(gd, T))
    /\ last' = ViewCall("as_object_arg_gd", as_object_arg_gd(gd, T))
    /\ UNCHANGED <<api, objects, gd>>

\* <&Gd<U> as AsObjectArg<T>>::as_object_arg(&&gd)
RefAsObjectArg(T) ==
    /\ IsGd
    /\ Inherits(gd.declared, T)
    /\ HasFreeSlot
    /\ views' = Returned(as_object_arg_ref(gd, T))
    /\ last' = ViewCall("as_object_arg_ref", as_object_arg_ref(gd, T))
    /\ UNCHANGED <<api, objects, gd>>

\* <Option<Gd<U>> as AsObjectArg<T>>::as_object_arg(&opt)
OptionAsObjectArg(opt, T) ==
    /\ opt # None => Inherits(opt[1].declared, T)
    /\ HasFreeSlot
    /\ views' = Returned(as_object_arg_option(opt, T))
    /\ last' = ViewCall(IF opt = None THEN "as_object_arg_none"
                                      ELSE "as_object_arg_some",
                        as_object_arg_option(opt, T))
    /\ UNCHANGED <<api, objects, gd>>

\* <NullArg as AsObjectArg<T>>::as_object_arg(&NullArg)
NullArgAsObjectArg(T) ==
    /\ HasFreeSlot
    /\ views' = Returned(as_object_arg_null_arg(T))
    /\ last' = ViewCall("as_object_arg_null_arg", as_object_arg_null_arg(T))
    /\ UNCHANGED <<api, objects, gd>>

\* ObjectArg::<T>::null()
Null(T) ==
    /\ HasFreeSlot
    /\ views' = Returned(Ok(null(T), FALSE))
    /\ last' = ViewCall("null", Ok(null(T), FALSE))
    /\ UNCHANGED <<api, objects, gd>>

(* ------------------------- operations on a view ------------------------ *)

\* ObjectArg::is_null(&views[v])
IsNull(v) ==
    /\ v \in ViewIds
    /\ last' = Call("is_null", "ok", NoView, NoPtr, is_null(views[v]), FALSE)
    /\ UNCHANGED <<api, objects, gd, views>>

\* <ObjectArg<T> as GodotNullableFfi>::is_null(&views[v])
NullableIsNull(v) ==
    /\ v \in ViewIds
    /\ last' = Call("nullable_is_null", "ok", NoView, NoPtr,
                    nullable_is_null(views[v]), FALSE)
    /\ UNCHANGED <<api, objects, gd, views>>

\* A clone that takes a reference on the object, as Gd::clone does.
CloneRetaining(v) ==
    /\ v \in ViewIds
    /\ HasFreeSlot
    /\ views' = Append(views, views[v])
    /\ last' = [op |-> "clone", outcome |-> "ok", view |-> views[v],
                ptr |-> NoPtr, flag |-> FALSE, checked |-> FALSE]
    /\ objects' = [a \in Addrs |->
            IF a = views[v].object_ptr /\ objects[a].alive
            THEN [objects[a] EXCEPT !.refcount = @ + 1] ELSE objects[a]]
    /\ UNCHANGED <<api, gd>>

\* views[v].clone()
Clone(v) ==
    /\ v \in ViewIds
    /\ HasFreeSlot
    /\ views' = Returned(Ok(clone(views[v]), FALSE))
    /\ last' = ViewCall("clone", Ok(clone(views[v]), FALSE))
    /\ UNCHANGED <<api, objects, gd>>

\* views[v].to_godot()
ToGodot(v) ==
    /\ v \in ViewIds
    /\ HasFreeSlot
    /\ views' = Returned(Ok(to_godot(views[v]), FALSE))
    /\ last' = ViewCall("to_godot", Ok(to_godot(views[v]), FALSE))
    /\ UNCHANGED <<api, objects, gd>>

\* views[v].to_ffi()
ToFfi(v) ==
    /\ v \in ViewIds
    /\ HasFreeSlot
    /\ views' = Returned(Ok(to_ffi(views[v]), FALSE))
    /\ last' = ViewCall("to_ffi", Ok(to_ffi(views[v]), FALSE))
    /\ UNCHANGED <<api, objects, gd>>

\* views[v].into_godot()
IntoGodot(v) ==
    /\ v \in ViewIds
    /\ views' = Moved(v, Ok(into_godot(views[v]), FALSE))
    /\ last' = ViewCall("into_godot", Ok(into_godot(views[v]), FALSE))
    /\ UNCHANGED <<api, objects, gd>>

\* views[v].into_ffi()
IntoFfi(v) ==
    /\ v \in ViewIds
    /\ views' = Moved(v, Ok(into_ffi(views[v]), FALSE))
    /\ last' = ViewCall("into_ffi", Ok(into_ffi(views[v]), FALSE))
    /\ UNCHANGED <<api, objects, gd>>

\* views[v].sys()
Sys(v) ==
    /\ v \in ViewIds
    /\ last' = Call("sys", "ok", NoView, sys(views[v]), FALSE, FALSE)
    /\ UNCHANGED <<api, objects, gd, views>>

\* views[v].sys_mut()
SysMut(v) ==
    /\ v \in ViewIds
    /\ last' = Call("sys_mut", "ok", NoView, sys_mut(views[v]), FALSE, FALSE)
    /\ UNCHANGED <<api, objects, gd, views>>

\* views[v].as_arg_ptr()
AsArgPtr(v) ==
    /\ v \in ViewIds
    /\ last' = Call("as_arg_ptr", "ok", NoView, as_arg_ptr(v), FALSE, FALSE)
    /\ UNCHANGED <<api, objects, gd, views>>

\* ObjectArg::<T>::flatten_option(opt); v = 0 passes None.
FlattenOption(v, T) ==
    /\ v # 0 => v \in ViewIds /\ views[v].T = T
    /\ v = 0 => HasFreeSlot
    /\ views' = IF v = 0
                THEN Returned(Ok(flatten_option(None, T), FALSE))
                ELSE Moved(v, Ok(flatten_option(Some(views[v]), T), FALSE))
    /\ last' = ViewCall("flatten_option",
                        Ok(flatten_option(IF v = 0 THEN None ELSE Some(views[v]), T), FALSE))
    /\ UNCHANGED <<api, objects, gd>>

\* The view in slot v goes out of scope; ObjectArg has no Drop.
Discard(v) ==
    /\ v \in ViewIds
    /\ views' = Without(v)
    /\ last' = Call("discard", "ok", NoView, NoPtr, FALSE, FALSE)
    /\ UNCHANGED <<api, objects, gd>>

(* ------------------ the foreign-to-native entry points ----------------- *)

\* ObjectArg::<T>::new_from_sys(ptr)
NewFromSys ==
    /\ views' = Returned(new_from_sys)
    /\ last' = ViewCall("new_from_sys", new_from_sys)
    /\ UNCHANGED <<api, objects, gd>>

\* ObjectArg::<T>::new_with_uninit(init)
NewWithUninit ==
    /\ views' = Returned(new_with_uninit)
    /\ last' = ViewCall("new_with_uninit", new_with_uninit)
    /\ UNCHANGED <<api, objects, gd>>

\* ObjectArg::<T>::new_with_init(init)
NewWithInit ==
    /\ views' = Returned(new_with_init)
    /\ last' = ViewCall("new_with_init", new_with_init)
    /\ UNCHANGED <<api, objects, gd>>

\* ObjectArg::<T>::from_arg_ptr(ptr, call_type)
FromArgPtr ==
    /\ views' = Returned(from_arg_ptr)
    /\ last' = ViewCall("from_arg_ptr", from_arg_ptr)
    /\ UNCHANGED <<api, objects, gd>>

\* views[v].move_return_ptr(ptr, call_type)
MoveReturnPtr(v) ==
    /\ v \in ViewIds
    /\ views' = Moved(v, move_return_ptr(views[v]))
    /\ last' = ViewCall("move_return_ptr", move_return_ptr(views[v]))
    /\ UNCHANGED <<api, objects, gd>>

\* ObjectArg::<T>::try_from_godot(views[v])
TryFromGodot(v) ==
    /\ v \in ViewIds
    /\ views' = Moved(v, try_from_godot(views[v]))
    /\ last' = ViewCall("try_from_godot", try_from_godot(views[v]))
    /\ UNCHANGED <<api, objects, gd>>

\* ObjectArg::<T>::try_from_ffi(views[v])
TryFromFfi(v) ==
    /\ v \in ViewIds
    /\ views' = Moved(v, try_from_ffi(views[v]))
    /\ last' = ViewCall("try_from_ffi", try_from_ffi(views[v]))
    /\ UNCHANGED <<api, objects, gd>>

\* ObjectArg::<T>::ffi_from_variant(&variant)
FfiFromVariant ==
    /\ views' = Returned(ffi_from_variant)
    /\ last' = ViewCall("ffi_from_variant", ffi_from_variant)
    /\ UNCHANGED <<api, objects, gd>>

\* views[v].ffi_to_variant()
FfiToVariant(v) ==
    /\ v \in ViewIds
    /\ last' = ViewCall("ffi_to_variant", ffi_to_variant(views[v]))
    /\ UNCHANGED <<api, objects, gd, views>>

(* --------------------------- specification ----------------------------- *)

HandleStep ==
    \/ \E a \in Addrs, cls \in Classes, declared \in Classes :
            NewObject(a, cls, declared)
    \/ \E a \in Addrs, cls \in Classes : EngineNew(a, cls)
    \/ \E a \in Addrs : Reference(a)
    \/ \E a \in Addrs : Unreference(a)
    \/ DropHandle
    \/ FreeObject
    \/ \E a \in Addrs : EngineFree(a)

ConvertStep ==
    \/ \E obj \in RawGds, T \in Classes : FromRawGd(obj, T)
    \/ \E T \in Classes : GdAsObjectArg(T)
    \/ \E T \in Classes : RefAsObjectArg(T)
    \/ \E opt \in OptionalGds, T \in Classes : OptionAsObjectArg(opt, T)
    \/ \E T \in Classes : NullArgAsObjectArg(T)
    \/ \E T \in Classes : Null(T)

ViewStep ==
    \/ \E v \in ViewIds : IsNull(v)
    \/ \E v \in ViewIds : NullableIsNull(v)
    \/ \E v \in ViewIds : Clone(v)
    \/ \E v \in ViewIds : ToGodot(v)
    \/ \E v \in ViewIds : ToFfi(v)
    \/ \E v \in ViewIds : IntoGodot(v)
    \/ \E v \in ViewIds : IntoFfi(v)
    \/ \E v \in ViewIds : Sys(v)
    \/ \E v \in ViewIds : SysMut(v)
    \/ \E v \in ViewIds : AsArgPtr(v)
    \/ \E v \in {0} \cup ViewIds, T \in Classes : FlattenOption(v, T)
    \/ \E v \in ViewIds : Discard(v)

InboundStep ==
    \/ NewFromSys
    \/ NewWithUninit
    \/ NewWithInit
    \/ FromArgPtr
    \/ \E v \in ViewIds : MoveReturnPtr(v)
    \/ \E v \in ViewIds : TryFromGodot(v)
    \/ \E v \in ViewIds : TryFromFfi(v)
    \/ FfiFromVariant
    \/ \E v \in ViewIds : FfiToVariant(v)

Next == HandleStep \/ ConvertStep \/ ViewStep \/ InboundStep

Spec == Init /\ [][Next]_vars

\* The same program compiled for either API level.
SpecAnyApi == InitAnyApi /\ [][Next]_vars

(* ------------------------------ properties ----------------------------- *)

\* The pointer refers, in heap `heap`, to a live object whose class is T or
\* a subclass of T.
RefersToLive(heap, p, T) ==
    /\ p \in Addrs
    /\ heap[p].alive
    /\ Inherits(heap[p].class, T)

\* The view is null, or refers to a live object of class T or a subclass.
ViewValidIn(heap, view) ==
    is_null(view) \/ RefersToLive(heap, view.object_ptr, view.T)

\* This step destroys the object at pointer p.
Destroyed(p) == p \in Addrs /\ objects[p].alive /\ ~objects'[p].alive

\* The foreign-to-native entry points.
InboundOps ==
    {"new_from_sys", "new_with_uninit", "new_with_init", "from_arg_ptr",
     "move_return_ptr", "try_from_godot", "try_from_ffi", "ffi_from_variant"}

\* C1: converting an owned or borrowed handle of class U (U is T or a
\* subclass of T) whose pointer is non-null and whose object passes the
\* runtime check returns a non-null view whose sys() is the handle's
\* obj_sys(); the owned and the borrowed conversion return the same view.
C1_CompatibleHandleGivesItsPointer ==
    [][last'.op \in {"as_object_arg_gd", "as_object_arg_ref", "from_raw_gd"} =>
       \A T \in Classes :
        /\ (/\ GdAsObjectArg(T) \/ RefAsObjectArg(T) \/ FromRawGd(gd, T)
            /\ ~raw_is_null(gd)
            /\ check_rtti(gd))
           => /\ last'.outcome = "ok"
              /\ last'.view.T = T
              /\ ~is_null(last'.view)
              /\ sys(last'.view) = cast(obj_sys(gd))
              /\ views'[FreeSlot] = last'.view
        /\ GdAsObjectArg(T)
           => /\ last'.outcome = as_object_arg_ref(gd, T).outcome
              /\ last'.view = as_object_arg_ref(gd, T).view
      ]_vars

\* C1 witness: a Gd<Node2D> converted for T = Node returned a non-null view
\* holding the handle's pointer.
C1_Witness ==
    /\ last.op = "as_object_arg_gd"
    /\ last.outcome = "ok"
    /\ gd.declared = "Node2D"
    /\ last.view.T = "Node"
    /\ ~is_null(last.view)
    /\ sys(last.view) = cast(obj_sys(gd))

\* C2: every foreign-to-native entry point of ObjectArg (new_from_sys,
\* new_with_uninit, new_with_init, from_arg_ptr, move_return_ptr,
\* try_from_godot, try_from_ffi, ffi_from_variant) fails unconditionally and
\* never returns a value.
C2_InboundNeverReturns ==
    last.op \in InboundOps => last.outcome = "panic" /\ last.view = NoView

\* C3: from_raw_gd for T on a non-null handle whose object's dynamic class
\* is neither T nor a subclass of T takes the fatal path of the runtime
\* check and produces no view.
C3_IncompatibleClassIsFatal ==
    [][last'.op = "from_raw_gd" =>
       \A obj \in RawGds, T \in Classes :
        (/\ FromRawGd(obj, T)
         /\ ~raw_is_null(obj)
         /\ objects[obj.ptr].alive
         /\ ~Inherits(objects[obj.ptr].class, T))
        => /\ last'.outcome = "panic"
           /\ last'.checked
           /\ last'.view = NoView
           /\ views' = views
      ]_vars

\* C3 witness: from_raw_gd panicked on a handle to a live object whose class
\* is unrelated to the handle's class.
C3_Witness ==
    /\ last.op = "from_raw_gd"
    /\ last.outcome = "panic"
    /\ ~raw_is_null(gd)
    /\ objects[gd.ptr].alive
    /\ ~Inherits(objects[gd.ptr].class, gd.declared)
    /\ ~Inherits(gd.declared, objects[gd.ptr].class)

\* C4: from_raw_gd on a handle whose pointer is null, whatever its declared
\* class, returns a null view without running the runtime check, so it
\* cannot reach the fatal path.
C4_NullHandleGivesNullView ==
    [][last'.op = "from_raw_gd" =>
       \A obj \in RawGds, T \in Classes :
        (FromRawGd(obj, T) /\ raw_is_null(obj))
        => /\ last'.outcome = "ok"
           /\ last'.view.T = T
           /\ is_null(last'.view)
           /\ ~last'.checked
           /\ views'[FreeSlot] = last'.view
      ]_vars

\* C4 witness: from_raw_gd returned a null view without a check while the
\* caller holds no object.
C4_Witness ==
    /\ last.op = "from_raw_gd"
    /\ last.outcome = "ok"
    /\ is_null(last.view)
    /\ last.view.T = "Node"
    /\ ~last.checked
    /\ raw_is_null(gd)

\* C5: the Option implementation converts None to a null view without a
\* check or fatal condition, and Some(h) to exactly what converting h
\* directly gives, the fatal outcome included.
C5_OptionDelegates ==
    [][last'.op \in {"as_object_arg_none", "as_object_arg_some"} =>
       \A opt \in OptionalGds, T \in Classes :
        OptionAsObjectArg(opt, T)
        => IF opt = None
           THEN /\ last'.outcome = "ok"
                /\ last'.view.T = T
                /\ is_null(last'.view)
                /\ ~last'.checked
           ELSE /\ last'.outcome = as_object_arg_gd(opt[1], T).outcome
                /\ last'.view = as_object_arg_gd(opt[1], T).view
                /\ last'.checked = as_object_arg_gd(opt[1], T).checked
                /\ views' = Returned(as_object_arg_gd(opt[1], T))
      ]_vars

\* C5 witness: Some(handle) converted to a non-null view, as the handle
\* converts directly.
C5_Witness ==
    /\ last.op = "as_object_arg_some"
    /\ last.outcome = "ok"
    /\ ~is_null(last.view)
    /\ last.view = as_object_arg_gd(gd, last.view.T).view

\* C6: for every class T, NullArg.as_object_arg() and ObjectArg::null()
\* return a view with is_null() true and the null pointer as sys(), without
\* a runtime check.
C6_NullMarkerGivesNullView ==
    last.op \in {"null", "as_object_arg_null_arg"}
    => /\ last.outcome = "ok"
       /\ last.view.T \in Classes
       /\ is_null(last.view)
       /\ nullable_is_null(last.view)
       /\ sys(last.view) = cast(NullPtr)
       /\ ~last.checked
       /\ \E v \in ViewIds : views[v] = last.view

\* C6 witness: NullArg converted for T = RefCounted while a live object
\* exists.
C6_Witness ==
    /\ last.op = "as_object_arg_null_arg"
    /\ last.view.T = "RefCounted"
    /\ is_null(last.view)
    /\ \E a \in Addrs : objects[a].alive

\* C7: clone, to_godot, into_godot, to_ffi and into_ffi return a view with
\* the pointer and the null-ness of the source, and leave the source's
\* pointer as it was; this holds of every copy, so of any number of them.
C7_CopyKeepsPointer ==
    [][last'.op \in {"clone", "to_godot", "to_ffi", "into_godot", "into_ffi"} =>
       \A v \in ViewIds :
        (Clone(v) \/ ToGodot(v) \/ ToFfi(v) \/ IntoGodot(v) \/ IntoFfi(v))
        => /\ last'.outcome = "ok"
           /\ last'.view.T = views[v].T
           /\ sys(last'.view) = sys(views[v])
           /\ is_null(last'.view) = is_null(views[v])
           /\ views'[v] = views[v]
           /\ \E w \in DOMAIN views' : views'[w] = last'.view
      ]_vars

\* C7 witness: a non-null view was cloned; the source and the copy exist
\* side by side with the same pointer.
C7_Witness ==
    /\ last.op = "clone"
    /\ ~is_null(last.view)
    /\ \E v, w \in ViewIds :
        v # w /\ views[v] = last.view /\ views[w] = last.view

\* C8: no call of this layer (conversions, null, copies, is_null, pointer
\* exposure, discarding a view, the inbound entry points) changes an
\* object's refcount or liveness, or the caller's handle.
C8_ViewsOwnNothing ==
    [][last'.op # NoCall.op => objects' = objects /\ gd' = gd]_vars

\* C8 witness: a view of a live reference-counted object was copied and the
\* copy discarded, and the object still has its one reference.
C8_Witness ==
    /\ last.op = "discard"
    /\ ~raw_is_null(gd)
    /\ objects[gd.ptr].alive
    /\ objects[gd.ptr].refcount = 1
    /\ \E v \in ViewIds : views[v].object_ptr = gd.ptr

\* C9: the API level is fixed; before 4.1 as_arg_ptr is the raw object
\* pointer (the value of sys()), and since 4.1 it is the address of the
\* view's pointer field, through which one read gives the raw object
\* pointer. Under both levels sys() and sys_mut() are the raw object pointer.
C9_ArgPtrFollowsApiLevel ==
    [][/\ api' = api
       /\ last'.op \in {"as_arg_ptr", "sys", "sys_mut"} => \A v \in ViewIds :
            /\ AsArgPtr(v) =>
                /\ api = "before_4_1" =>
                    /\ last'.ptr = sys(views[v])
                    /\ last'.ptr = cast(views[v].object_ptr)
                /\ api = "since_4_1" =>
                    /\ last'.ptr = addr_of(v)
                    /\ Deref(last'.ptr) = cast(views[v].object_ptr)
            /\ Sys(v) => last'.ptr = cast(views[v].object_ptr)
            /\ SysMut(v) => last'.ptr = cast(views[v].object_ptr)
      ]_vars

\* C9 witness: since 4.1, as_arg_ptr of a non-null view returned the address
\* of its field, which holds the object's address.
C9_Witness ==
    /\ last.op = "as_arg_ptr"
    /\ api = "since_4_1"
    /\ last.ptr.space = FieldSpace
    /\ Deref(last.ptr) # cast(NullPtr)

\* C10 as stated: in every reachable state every existing view is null or
\* refers to a live object whose class is T or a subclass of T.
C10_ViewsAlwaysValid ==
    \A v \in ViewIds : ViewValidIn(objects, views[v])

\* C10 amended: a view that is neither null nor referring to a live object
\* of class T or a subclass is a view that existed before the step and was
\* already so, or whose object the step destroyed. Hence every view is valid
\* when it is constructed and stays valid until its object is destroyed.
C10_ValidUntilObjectDestroyed ==
    [][\A v \in DOMAIN views' :
        ~ViewValidIn(objects', views'[v])
        => \E w \in ViewIds :
            /\ views[w] = views'[v]
            /\ ~ViewValidIn(objects, views[w]) \/ Destroyed(views[w].object_ptr)
      ]_vars

\* C10 witness: try_from_ffi returned a view of class Node that refers to a
\* live Node2D object.
C10_Witness ==
    /\ last.op = "try_from_ffi"
    /\ last.outcome = "ok"
    /\ last.view.T = "Node"
    /\ ~is_null(last.view)
    /\ objects[last.view.object_ptr].alive
    /\ objects[last.view.object_ptr].class = "Node2D"
    /\ ViewValidIn(objects, last.view)

====
